---------------------------- MODULE Spec2Model ----------------------------
(***************************************************************************)
(* The dynamic collection engine of agile-cms: the four PL/pgSQL functions *)
(* create_content_type, insert_into_content_type, update_content_type_data *)
(* and delete_content_type_data (src/readme.md), reached through the four  *)
(* routes of collectionRouter (src/unnamed/part_000).                      *)
(*                                                                         *)
(* Each function builds the text of one statement with format(),           *)
(* quote_ident() and quote_literal() and hands it to EXECUTE.  The model   *)
(* keeps that text: a Text is a sequence of symbols, where a symbol is     *)
(* either one caller-supplied character or one fixed word of a format      *)
(* string / type name.  The store then reads the text back with its own    *)
(* lexer (StoreExec...), so quoting is something the checks can refute.    *)
(***************************************************************************)
EXTENDS Integers, Sequences, FiniteSets, TLC

\* ------------------------------------------------------------------ bounds
\* Largest number a caller sends (ids, integer values) and largest value a
\* table's id sequence hands out before the model stops inserting.
MaxId == 2
\* Largest number of entries of a schema / data / updateData mapping.
MaxCols == 2

\* ------------------------------------------------------------- characters
Dq == "\""
Sq == "'"
Bs == "\\"
Sp == " "
Comma == ","
Semi == ";"

\* Characters an unquoted identifier may start with / continue with
\* (quote_ident: [a-z_] then [a-z0-9_]; the model's letters are those of its
\* names and of the words true/false/null).
DigitChars == <<"0", "1", "2", "3", "4", "5", "6", "7", "8", "9">>
Digits == {DigitChars[i] : i \in 1..10}
Letters == {"a", "c", "d", "e", "f", "i", "l", "n", "r", "s", "t", "u", "_"}

\* ---------------------------------------------------------- text helpers
RECURSIVE DoubleChar(_, _)
\* s with every occurrence of character c written twice.
DoubleChar(s, c) ==
  IF s = <<>> THEN <<>>
  ELSE (IF Head(s) = c THEN <<c, c>> ELSE <<Head(s)>>) \o DoubleChar(Tail(s), c)

Has(s, c) == \E i \in 1..Len(s) : s[i] = c

RECURSIVE TrimLeft(_, _)
TrimLeft(s, cs) ==
  IF s # <<>> /\ Head(s) \in cs THEN TrimLeft(Tail(s), cs) ELSE s

RECURSIVE TrimRight(_, _)
TrimRight(s, cs) ==
  IF s # <<>> /\ s[Len(s)] \in cs THEN TrimRight(SubSeq(s, 1, Len(s) - 1), cs) ELSE s

\* TRIM(BOTH ', ' FROM s): strips every leading and trailing comma or space.
TrimBoth(s) == TrimRight(TrimLeft(s, {Comma, Sp}), {Comma, Sp})

RECURSIVE NatText(_)
\* The decimal digits of a natural number.
NatText(n) ==
  IF n < 10 THEN <<DigitChars[n + 1]>>
  ELSE NatText(n \div 10) \o <<DigitChars[(n % 10) + 1]>>

DigitVal(c) == CHOOSE d \in 0..9 : DigitChars[d + 1] = c

RECURSIVE TextNat(_)
\* The number a non-empty sequence of digits denotes.
TextNat(s) ==
  IF Len(s) = 1 THEN DigitVal(s[1])
  ELSE 10 * TextNat(SubSeq(s, 1, Len(s) - 1)) + DigitVal(s[Len(s)])

IsNatText(s) == s # <<>> /\ \A i \in 1..Len(s) : s[i] \in Digits


\* Position of a character in ASCII order (the bytewise order jsonb sorts
\* keys of equal length by).
Ascii == <<Sp, Dq, Sq, Comma>> \o DigitChars \o <<Semi, "E", Bs, "_">>
           \o <<"a", "c", "d", "e", "f", "i", "l", "n", "r", "s", "t", "u">>
Rank(c) == CHOOSE i \in 1..Len(Ascii) : Ascii[i] = c

RECURSIVE TextLess(_, _)
\* Bytewise comparison of two texts of the same length.
TextLess(a, b) ==
  /\ a # <<>>
  /\ \/ Rank(Head(a)) < Rank(Head(b))
     \/ Head(a) = Head(b) /\ TextLess(Tail(a), Tail(b))

\* jsonb keeps the keys of an object sorted by length, then bytewise.
KeyLess(a, b) == Len(a) < Len(b) \/ (Len(a) = Len(b) /\ TextLess(a, b))

RECURSIVE SortKeys(_)
SortKeys(S) ==
  IF S = {} THEN <<>>
  ELSE LET m == CHOOSE x \in S : \A y \in S : y = x \/ KeyLess(x, y)
       IN  <<m>> \o SortKeys(S \ {m})

\* jsonb_each(obj): the keys of the object in jsonb's iteration order.
JsonbEach(obj) == SortKeys(DOMAIN obj)

\* ------------------------------------------------------------ JSON values
JStr(s) == [k |-> "str", s |-> s, n |-> 0]
JNum(n) == [k |-> "num", s |-> <<>>, n |-> n]
JBool(b) == [k |-> "bool", s |-> <<>>, n |-> IF b THEN 1 ELSE 0]
JNull == [k |-> "null", s |-> <<>>, n |-> 0]

TrueText == <<"t", "r", "u", "e">>
FalseText == <<"f", "a", "l", "s", "e">>
NullText == <<"n", "u", "l", "l">>

RECURSIVE JsonEscape(_)
\* A JSON string's characters as jsonb prints them: " and \ get a backslash.
JsonEscape(s) ==
  IF s = <<>> THEN <<>>
  ELSE (IF Head(s) \in {Dq, Bs} THEN <<Bs, Head(s)>> ELSE <<Head(s)>>)
         \o JsonEscape(Tail(s))

\* The cast jsonb -> text that quote_literal(anyelement) applies to
\* column_entry.value: a string keeps its double quotes, JSON null is the
\* word null.
JsonbText(v) ==
  CASE v.k = "str" -> <<Dq>> \o JsonEscape(v.s) \o <<Dq>>
    [] v.k = "num" -> NatText(v.n)
    [] v.k = "bool" -> (IF v.n = 1 THEN TrueText ELSE FalseText)
    [] OTHER -> NullText

\* ---------------------------------------------------------------- quoting
\* Reserved words the model's letters can spell; quote_ident quotes them.
Keywords == {NullText, TrueText, FalseText}

IdentSafe(s) ==
  /\ s # <<>>
  /\ s[1] \in Letters
  /\ \A i \in 1..Len(s) : s[i] \in Letters \cup Digits
  /\ s \notin Keywords

\* A quote_ident that wraps the name in double quotes and leaves the quotes
\* inside it single.
QuoteIdentUndoubled(s) ==
  IF IdentSafe(s) THEN s ELSE <<Dq>> \o s \o <<Dq>>

\* quote_ident(name), also format's %I: the name as is when it is a plain
\* lower-case identifier, else wrapped in double quotes with every embedded
\* double quote doubled.
QuoteIdent(s) ==
  IF IdentSafe(s) THEN s ELSE <<Dq>> \o DoubleChar(s, Dq) \o <<Dq>>

\* quote_literal(text): single quotes around the text, embedded single
\* quotes and backslashes doubled, an E prefix when a backslash occurs.
QuoteLiteral(s) ==
  (IF Has(s, Bs) THEN <<"E">> ELSE <<>>)
    \o <<Sq>> \o DoubleChar(DoubleChar(s, Bs), Sq) \o <<Sq>>

\* ----------------------------------------------------------- column types
\* The allow-list of create_content_type.
AllowedTypes == {"TEXT", "INTEGER", "BOOLEAN", "TIMESTAMP", "DATE", "NUMERIC", "JSONB"}
\* What column_entry.value->>'type' yields when the entry has no type (or
\* a JSON null type): SQL NULL.
NullSql == "<NULL>"

\* IF col_type NOT IN (...) THEN RAISE: under SQL's three-valued logic the
\* test is NULL, not TRUE, for a NULL col_type, and IF takes NULL as false.
UnsupportedType(colType) == colType # NullSql /\ colType \notin AllowedTypes

\* format's %s: a NULL argument is written as the empty string.
FormatS(x) == IF x = NullSql THEN <<>> ELSE <<x>>

\* -------------------------------------------------------- statement text
RECURSIVE ColumnDefinitions(_, _)
\* The loop of create_content_type over the keys still to do.
ColumnDefinitions(schema, keys) ==
  IF keys = <<>> THEN <<>>
  ELSE LET e == schema[Head(keys)]
       IN  QuoteIdent(Head(keys)) \o <<Sp>> \o FormatS(e.type) \o <<Sp>>
             \o e.constraints \o <<Comma, Sp>>
             \o ColumnDefinitions(schema, Tail(keys))

CreateStatement(tableName, columnDefinitions) ==
  <<"CREATE TABLE IF NOT EXISTS ">> \o QuoteIdent(tableName)
    \o <<" (id SERIAL PRIMARY KEY, ">> \o columnDefinitions \o <<");">>

RECURSIVE ColumnNames(_)
ColumnNames(keys) ==
  IF keys = <<>> THEN <<>>
  ELSE QuoteIdent(Head(keys)) \o <<Comma, Sp>> \o ColumnNames(Tail(keys))

RECURSIVE ColumnValues(_, _)
ColumnValues(data, keys) ==
  IF keys = <<>> THEN <<>>
  ELSE QuoteLiteral(JsonbText(data[Head(keys)])) \o <<Comma, Sp>>
         \o ColumnValues(data, Tail(keys))

InsertStatement(tableName, columnNames, columnValues) ==
  <<"INSERT INTO ">> \o QuoteIdent(tableName) \o <<" (">> \o columnNames
    \o <<") VALUES (">> \o columnValues \o <<");">>

RECURSIVE UpdatePairs(_, _)
UpdatePairs(updateData, keys) ==
  IF keys = <<>> THEN <<>>
  ELSE QuoteIdent(Head(keys)) \o <<Sp, "=", Sp>>
         \o QuoteLiteral(JsonbText(updateData[Head(keys)])) \o <<Comma, Sp>>
         \o UpdatePairs(updateData, Tail(keys))

UpdateStatement(tableName, updatePairs, id) ==
  <<"UPDATE ">> \o QuoteIdent(tableName) \o <<" SET ">> \o updatePairs
    \o <<" WHERE id = ">> \o NatText(id) \o <<";">>

DeleteStatement(tableName, recordId) ==
  <<"DELETE FROM ">> \o QuoteIdent(tableName) \o <<" WHERE id = ">>
    \o NatText(recordId) \o <<";">>


\* ------------------------------------------------------ the store's lexer
\* What the relational store makes of a statement's text.  Every scanner
\* returns [ok, val, next]: whether a token was read, its value, and the
\* position after it.
NoToken(i) == [ok |-> FALSE, val |-> <<>>, next |-> i]

RECURSIVE ScanQuoted(_, _, _, _, _)
\* The rest of a quoted token opened before position j: up to the first
\* quote character q that is not doubled; with esc, a backslash takes the
\* next character literally (E'' strings).
ScanQuoted(s, j, acc, q, esc) ==
  IF j > Len(s) THEN NoToken(j)
  ELSE IF esc /\ s[j] = Bs
    THEN IF j + 1 > Len(s) THEN NoToken(j)
         ELSE ScanQuoted(s, j + 2, Append(acc, s[j + 1]), q, esc)
  ELSE IF s[j] = q
    THEN IF j + 1 <= Len(s) /\ s[j + 1] = q
         THEN ScanQuoted(s, j + 2, Append(acc, q), q, esc)
         ELSE [ok |-> TRUE, val |-> acc, next |-> j + 1]
  ELSE ScanQuoted(s, j + 1, Append(acc, s[j]), q, esc)

RECURSIVE ScanRun(_, _, _, _)
\* The longest run of characters of cs from position j on.
ScanRun(s, j, acc, cs) ==
  IF j <= Len(s) /\ s[j] \in cs THEN ScanRun(s, j + 1, Append(acc, s[j]), cs)
  ELSE [ok |-> acc # <<>>, val |-> acc, next |-> j]

RECURSIVE SkipSpaces(_, _)
SkipSpaces(s, j) == IF j <= Len(s) /\ s[j] = Sp THEN SkipSpaces(s, j + 1) ELSE j

\* A delimited identifier of length zero is an error.
Delimited(r) == [r EXCEPT !.ok = r.ok /\ r.val # <<>>]
\* A reserved word is no identifier.
Unreserved(r) == [r EXCEPT !.ok = r.val \notin Keywords]

\* An identifier token: "..." or a plain word.
LexIdent(s, i) ==
  IF i > Len(s) THEN NoToken(i)
  ELSE IF s[i] = Dq THEN Delimited(ScanQuoted(s, i + 1, <<>>, Dq, FALSE))
  ELSE IF s[i] \in Letters THEN Unreserved(ScanRun(s, i, <<>>, Letters \cup Digits))
  ELSE NoToken(i)

\* A string literal token: '...' or E'...'.
LexLiteral(s, i) ==
  IF i > Len(s) THEN NoToken(i)
  ELSE IF s[i] = Sq THEN ScanQuoted(s, i + 1, <<>>, Sq, FALSE)
  ELSE IF s[i] = "E" /\ i + 1 <= Len(s) /\ s[i + 1] = Sq
    THEN ScanQuoted(s, i + 2, <<>>, Sq, TRUE)
  ELSE NoToken(i)

At(s, i, sym) == i <= Len(s) /\ s[i] = sym

\* ----------------------------------------------------- the store's parser
\* A list parser returns [ok, vals, more, next]; vals and more are parallel.
NoList(i) == [ok |-> FALSE, vals |-> <<>>, more |-> <<>>, next |-> i]
List(vals, more, next) == [ok |-> TRUE, vals |-> vals, more |-> more, next |-> next]

RECURSIVE ParseIdentList(_, _, _)
\* The list after its identifier t.
IdentListAfter(s, t, acc) ==
  IF ~t.ok THEN NoList(t.next)
  ELSE IF At(s, t.next, Comma)
    THEN ParseIdentList(s, SkipSpaces(s, t.next + 1), Append(acc, t.val))
  ELSE List(Append(acc, t.val), <<>>, t.next)

\* ident {, ident}
ParseIdentList(s, i, acc) == IdentListAfter(s, LexIdent(s, i), acc)

RECURSIVE ParseLiteralList(_, _, _)
\* The list after its literal t.
LiteralListAfter(s, t, acc) ==
  IF ~t.ok THEN NoList(t.next)
  ELSE IF At(s, t.next, Comma)
    THEN ParseLiteralList(s, SkipSpaces(s, t.next + 1), Append(acc, t.val))
  ELSE List(Append(acc, t.val), <<>>, t.next)

\* literal {, literal}
ParseLiteralList(s, i, acc) == LiteralListAfter(s, LexLiteral(s, i), acc)

RECURSIVE ParseSetList(_, _, _, _)
\* The list after the literal v assigned to column col.
SetListAfter(s, col, v, cols, vals) ==
  IF ~v.ok THEN NoList(v.next)
  ELSE IF At(s, v.next, Comma)
    THEN ParseSetList(s, SkipSpaces(s, v.next + 1), Append(cols, col), Append(vals, v.val))
  ELSE List(Append(cols, col), Append(vals, v.val), v.next)

\* The = at position e after the identifier c.
SetListEquals(s, c, e, cols, vals) ==
  IF ~c.ok \/ ~At(s, e, "=") THEN NoList(e)
  ELSE SetListAfter(s, c.val, LexLiteral(s, SkipSpaces(s, e + 1)), cols, vals)

SetListColumn(s, c, cols, vals) ==
  SetListEquals(s, c, SkipSpaces(s, c.next), cols, vals)

\* ident = literal {, ident = literal}
ParseSetList(s, i, cols, vals) == SetListColumn(s, LexIdent(s, i), cols, vals)

\* Type names the store knows: the allow-list and one more.
TypeWords == AllowedTypes \cup {"VARCHAR"}
\* Column constraints the store's grammar accepts after a type.
ConstraintWords == {"NOT NULL"}

RECURSIVE SkipConstraints(_, _, _)
\* Zero or more constraint words from position j: [notnull, next].
SkipConstraints(s, j, nn) ==
  IF j <= Len(s) /\ s[j] = Sp THEN SkipConstraints(s, j + 1, nn)
  ELSE IF j <= Len(s) /\ s[j] \in ConstraintWords THEN SkipConstraints(s, j + 1, TRUE)
  ELSE [notnull |-> nn, next |-> j]

RECURSIVE ParseColumnDefs(_, _, _, _)
\* The list after the constraints k of column col of type type.
ColumnDefsAfter(s, col, type, k, cols, specs) ==
  IF At(s, k.next, Comma)
    THEN ParseColumnDefs(s, SkipSpaces(s, k.next + 1), Append(cols, col),
                         Append(specs, [type |-> type, notnull |-> k.notnull]))
  ELSE List(Append(cols, col), Append(specs, [type |-> type, notnull |-> k.notnull]),
            k.next)

\* The type at position t after the identifier c.
ColumnDefsType(s, c, t, cols, specs) ==
  IF ~c.ok \/ t > Len(s) THEN NoList(t)
  ELSE IF s[t] \notin TypeWords THEN NoList(t)
  ELSE ColumnDefsAfter(s, c.val, s[t], SkipConstraints(s, t + 1, FALSE), cols, specs)

ColumnDefsColumn(s, c, cols, specs) ==
  ColumnDefsType(s, c, SkipSpaces(s, c.next), cols, specs)

\* ident type {constraint} {, ident type {constraint}}
ParseColumnDefs(s, i, cols, specs) == ColumnDefsColumn(s, LexIdent(s, i), cols, specs)

\* A parsed statement: [ok, kind, table, cols, vals, id]; vals are literal
\* texts (insert, update) or column specifications (create).
NoParse ==
  [ok |-> FALSE, kind |-> "", table |-> <<>>, cols |-> <<>>, vals |-> <<>>, id |-> 0]
Parsed(kind, table, cols, vals, id) ==
  [ok |-> TRUE, kind |-> kind, table |-> table, cols |-> cols, vals |-> vals, id |-> id]

\* The statement ends with sym at position i.
Ends(s, i, sym) == At(s, i, sym) /\ i = Len(s)

CreateColumns(s, table, l) ==
  IF l.ok /\ Ends(s, l.next, ");") THEN Parsed("create", table, l.vals, l.more, 0)
  ELSE NoParse

CreateTarget(s, t) ==
  IF t.ok /\ At(s, t.next, " (id SERIAL PRIMARY KEY, ")
  THEN CreateColumns(s, t.val, ParseColumnDefs(s, t.next + 1, <<>>, <<>>))
  ELSE NoParse

ParseCreate(s) == CreateTarget(s, LexIdent(s, 2))

InsertValues(s, table, cols, v) ==
  IF v.ok /\ Ends(s, v.next, ");") THEN Parsed("insert", table, cols, v.vals, 0)
  ELSE NoParse

InsertColumns(s, table, c) ==
  IF c.ok /\ At(s, c.next, ") VALUES (")
  THEN InsertValues(s, table, c.vals, ParseLiteralList(s, c.next + 1, <<>>))
  ELSE NoParse

InsertTarget(s, t) ==
  IF t.ok /\ At(s, t.next, " (")
  THEN InsertColumns(s, t.val, ParseIdentList(s, t.next + 1, <<>>))
  ELSE NoParse

ParseInsert(s) == InsertTarget(s, LexIdent(s, 2))

\* The number n of WHERE id = n ; which ends the statement.
WhereId(s, n) == IF n.ok /\ Ends(s, n.next, Semi) THEN TextNat(n.val) ELSE -1

\* WHERE id = <number> ; at position i: the number, or -1.
ParseWhere(s, i) ==
  IF At(s, i, " WHERE id = ") THEN WhereId(s, ScanRun(s, i + 1, <<>>, Digits)) ELSE -1

UpdateWhere(table, l, id) ==
  IF id >= 0 THEN Parsed("update", table, l.vals, l.more, id) ELSE NoParse

UpdateSet(s, table, l) ==
  IF l.ok THEN UpdateWhere(table, l, ParseWhere(s, l.next)) ELSE NoParse

UpdateTarget(s, t) ==
  IF t.ok /\ At(s, t.next, " SET ")
  THEN UpdateSet(s, t.val, ParseSetList(s, t.next + 1, <<>>, <<>>))
  ELSE NoParse

ParseUpdate(s) == UpdateTarget(s, LexIdent(s, 2))

DeleteWhere(table, id) ==
  IF id >= 0 THEN Parsed("delete", table, <<>>, <<>>, id) ELSE NoParse

DeleteTarget(s, t) ==
  IF t.ok THEN DeleteWhere(t.val, ParseWhere(s, t.next)) ELSE NoParse

ParseDelete(s) == DeleteTarget(s, LexIdent(s, 2))

\* The store reads the statement's first word and parses the rest.
Parse(s) ==
  IF s = <<>> THEN NoParse
  ELSE CASE s[1] = "CREATE TABLE IF NOT EXISTS " -> ParseCreate(s)
         [] s[1] = "INSERT INTO " -> ParseInsert(s)
         [] s[1] = "UPDATE " -> ParseUpdate(s)
         [] s[1] = "DELETE FROM " -> ParseDelete(s)
         [] OTHER -> NoParse

\* ------------------------------------------------------- the store's data
\* The store is a function from the names of the tables that exist to
\* [cols, rows, seq]: cols maps each column to [type, notnull], rows maps
\* each id to the record's cells (one per column but id), and seq is the next
\* value of the table's id sequence.  A cell is [null, v]: SQL NULL, or the
\* value in the canonical text of the column's type.
IdCol == <<"i", "d">>
NullCell == [null |-> TRUE, v |-> <<>>]
Cell(v) == [null |-> FALSE, v |-> v]
NoRows == [i \in {} |-> [c \in {} |-> NullCell]]
NoTables == [t \in {} |-> [cols |-> <<>>, rows |-> NoRows, seq |-> 1]]

IsSeqSet(q) == \A i, j \in 1..Len(q) : q[i] = q[j] => i = j
Range(q) == {q[i] : i \in 1..Len(q)}
IndexOf(q, x) == CHOOSE i \in 1..Len(q) : q[i] = x

RECURSIVE JsonChars(_, _)
\* The characters of a JSON string from position j to its closing quote,
\* which ends the text.
JsonChars(text, j) ==
  IF j > Len(text) THEN FALSE
  ELSE IF text[j] = Bs
    THEN j + 1 <= Len(text) /\ text[j + 1] \in {Dq, Bs} /\ JsonChars(text, j + 2)
  ELSE IF text[j] = Dq THEN j = Len(text)
  ELSE JsonChars(text, j + 1)

\* What jsonb's input function accepts: a number, true, false, null, or a
\* string.
IsJsonText(text) ==
  \/ IsNatText(text)
  \/ text \in {TrueText, FalseText, NullText}
  \/ Len(text) >= 2 /\ text[1] = Dq /\ JsonChars(text, 2)

Refused == [ok |-> FALSE, v |-> <<>>]
Accepted(v) == [ok |-> TRUE, v |-> v]

\* The input function of a column type applied to a literal's text: [ok, v],
\* v the value's canonical text.  TEXT keeps the text as it is; INTEGER and
\* NUMERIC take digits; BOOLEAN takes its spellings; JSONB takes JSON; no
\* text the model's callers can send is a DATE or a TIMESTAMP.
Coerce(type, text) ==
  CASE type \in {"TEXT", "VARCHAR"} -> Accepted(text)
    [] type \in {"INTEGER", "NUMERIC"} ->
         IF IsNatText(text) THEN Accepted(NatText(TextNat(text))) ELSE Refused
    [] type = "BOOLEAN" ->
         IF text \in {TrueText, <<"t">>, <<"1">>} THEN Accepted(TrueText)
         ELSE IF text \in {FalseText, <<"f">>, <<"0">>} THEN Accepted(FalseText)
         ELSE Refused
    [] type = "JSONB" -> IF IsJsonText(text) THEN Accepted(text) ELSE Refused
    [] OTHER -> Refused

\* The statement's columns exist, are named once, and every literal is
\* accepted by its column's type (the store's analysis of insert and update).
Analysed(tbl, p) ==
  /\ Len(p.cols) = Len(p.vals)
  /\ IsSeqSet(p.cols)
  /\ \A i \in 1..Len(p.cols) :
       /\ p.cols[i] \in DOMAIN tbl.cols
       /\ Coerce(tbl.cols[p.cols[i]].type, p.vals[i]).ok

\* The cell the statement gives column c, or old when it does not name c.
Given(tbl, p, c, old) ==
  IF c \in Range(p.cols)
  THEN Cell(Coerce(tbl.cols[c].type, p.vals[IndexOf(p.cols, c)]).v)
  ELSE old

UserCols(tbl) == DOMAIN tbl.cols \ {IdCol}

\* Every execution returns [ok, count, db]: whether the store accepted the
\* statement, the number of rows it affected, and the store afterwards.
Rejected(db) == [ok |-> FALSE, count |-> 0, db |-> db]
Done(count, db) == [ok |-> TRUE, count |-> count, db |-> db]

\* The table with row put under id (no row has that id).
WithRow(tbl, id, row) ==
  [tbl EXCEPT !.rows = [i \in DOMAIN @ \cup {id} |-> IF i = id THEN row ELSE @[i]]]

\* The table without the row of id.
WithoutRow(tbl, id) ==
  [tbl EXCEPT !.rows = [i \in DOMAIN @ \ {id} |-> @[i]]]

\* The new table a CREATE TABLE makes: id SERIAL PRIMARY KEY and the
\* statement's columns, no rows, the sequence at 1.
NewTable(p) ==
  [cols |-> [c \in Range(p.cols) \cup {IdCol} |->
               IF c = IdCol THEN [type |-> "INTEGER", notnull |-> TRUE]
               ELSE p.vals[IndexOf(p.cols, c)]],
   rows |-> NoRows,
   seq |-> 1]

\* A CREATE TABLE that makes the table anew when it exists.
ExecCreateAnew(db, p) ==
  IF ~IsSeqSet(<<IdCol>> \o p.cols) THEN Rejected(db)
  ELSE Done(0, [t \in DOMAIN db \cup {p.table} |->
                  IF t = p.table THEN NewTable(p) ELSE db[t]])

\* CREATE TABLE IF NOT EXISTS: a table that exists is left alone (before
\* the column list is looked at); else the columns, id among them, must be
\* named once.
ExecCreate(db, p) ==
  IF p.table \in DOMAIN db THEN Done(0, db)
  ELSE IF ~IsSeqSet(<<IdCol>> \o p.cols) THEN Rejected(db)
  ELSE Done(0, [t \in DOMAIN db \cup {p.table} |->
                  IF t = p.table THEN NewTable(p) ELSE db[t]])

\* A row stored without the primary key's check: it takes the place of the
\* row that has its id.
PutRowUnkeyed(db, name, tbl, id, row) ==
  IF \A c \in UserCols(tbl) : tbl.cols[c].notnull => ~row[c].null
  THEN Done(1, [db EXCEPT ![name] = WithRow(tbl, id, row)])
  ELSE Rejected([db EXCEPT ![name] = tbl])

\* The row is checked and stored: NOT NULL columns hold a value and no
\* other row has the id.  tbl is the table with the sequence as the
\* statement leaves it, which a refused row does not undo.
PutRow(db, name, tbl, id, row) ==
  IF /\ \A c \in UserCols(tbl) : tbl.cols[c].notnull => ~row[c].null
     /\ id \notin DOMAIN tbl.rows
  THEN Done(1, [db EXCEPT ![name] = WithRow(tbl, id, row)])
  ELSE Rejected([db EXCEPT ![name] = tbl])

\* INSERT with the id given by the statement.
InsertGiven(db, p, tbl) ==
  PutRow(db, p.table, tbl, TextNat(Given(tbl, p, IdCol, NullCell).v),
         [c \in UserCols(tbl) |-> Given(tbl, p, c, NullCell)])

\* INSERT with the id drawn from the table's sequence.
InsertSerial(db, p, tbl) ==
  PutRow(db, p.table, [tbl EXCEPT !.seq = @ + 1], tbl.seq,
         [c \in UserCols(tbl) |-> Given(tbl, p, c, NullCell)])

ExecInsert(db, p) ==
  IF p.table \notin DOMAIN db THEN Rejected(db)
  ELSE IF ~Analysed(db[p.table], p) THEN Rejected(db)
  ELSE IF IdCol \in Range(p.cols) THEN InsertGiven(db, p, db[p.table])
  ELSE InsertSerial(db, p, db[p.table])

\* The row of p.id becomes row under id, unless another row has that id.
MoveRow(db, p, tbl, id, row) ==
  IF id \in DOMAIN tbl.rows \ {p.id} THEN Rejected(db)
  ELSE Done(1, [db EXCEPT ![p.table] = WithRow(WithoutRow(tbl, p.id), id, row)])

UpdateRow(db, p, tbl, old) ==
  MoveRow(db, p, tbl,
          IF IdCol \in Range(p.cols) THEN TextNat(Given(tbl, p, IdCol, NullCell).v)
          ELSE p.id,
          [c \in UserCols(tbl) |-> Given(tbl, p, c, old[c])])

\* UPDATE ... WHERE id = n: the one row with that id, if any, gets the given
\* cells.
ExecUpdate(db, p) ==
  IF p.table \notin DOMAIN db THEN Rejected(db)
  ELSE IF ~Analysed(db[p.table], p) THEN Rejected(db)
  ELSE IF p.id \notin DOMAIN db[p.table].rows THEN Done(0, db)
  ELSE UpdateRow(db, p, db[p.table], db[p.table].rows[p.id])

\* DELETE ... WHERE id = n.
ExecDelete(db, p) ==
  IF p.table \notin DOMAIN db THEN Rejected(db)
  ELSE IF p.id \notin DOMAIN db[p.table].rows THEN Done(0, db)
  ELSE Done(1, [db EXCEPT ![p.table] = WithoutRow(@, p.id)])

\* The store runs a parsed statement; a text it could not parse is rejected.
Run(db, p) ==
  IF ~p.ok THEN Rejected(db)
  ELSE CASE p.kind = "create" -> ExecCreate(db, p)
         [] p.kind = "insert" -> ExecInsert(db, p)
         [] p.kind = "update" -> ExecUpdate(db, p)
         [] OTHER -> ExecDelete(db, p)

\* EXECUTE stmt.
StoreExec(db, stmt) == Run(db, Parse(stmt))

\* ----------------------------------------------------- the four functions
\* What a function call comes to: result is "TEXT" (create's message),
\* "TRUE", "FALSE" or "RAISED" (an exception left the function); error names
\* what went wrong; issued tells whether a statement reached EXECUTE, and
\* stmt is its text; db is the store afterwards.
Outcome(result, error, issued, stmt, db) ==
  [result |-> result, error |-> error, issued |-> issued, stmt |-> stmt, db |-> db]

\* create_content_type has no EXCEPTION block: the store's error leaves the
\* function, like its own RAISE EXCEPTIONs.
CreateReturn(stmt, r) ==
  IF r.ok THEN Outcome("TEXT", "", TRUE, stmt, r.db)
  ELSE Outcome("RAISED", "StoreError", TRUE, stmt, r.db)

CreateExecute(db, stmt) == CreateReturn(stmt, StoreExec(db, stmt))

\* After the loop: the trimmed column definitions must not be empty.
CreateChecked(db, tableName, columnDefinitions) ==
  IF columnDefinitions = <<>> THEN Outcome("RAISED", "EmptySchema", FALSE, <<>>, db)
  ELSE CreateExecute(db, CreateStatement(tableName, columnDefinitions))

\* create_content_type(table_name, schema)
CreateContentType(db, tableName, schema) ==
  IF \E k \in DOMAIN schema : UnsupportedType(schema[k].type)
  THEN Outcome("RAISED", "UnsupportedType", FALSE, <<>>, db)
  ELSE CreateChecked(db, tableName,
                     TrimBoth(ColumnDefinitions(schema, JsonbEach(schema))))

\* An insert without the EXCEPTION block: the store's error leaves it.
InsertReturnRaising(stmt, r) ==
  IF r.ok THEN Outcome("TRUE", "", TRUE, stmt, r.db)
  ELSE Outcome("RAISED", "StoreError", TRUE, stmt, r.db)

\* RETURN TRUE, or WHEN OTHERS THEN RETURN FALSE.
InsertReturn(stmt, r) ==
  IF r.ok THEN Outcome("TRUE", "", TRUE, stmt, r.db)
  ELSE Outcome("FALSE", "StoreError", TRUE, stmt, r.db)

InsertExecute(db, stmt) == InsertReturn(stmt, StoreExec(db, stmt))

\* An insert without the check for an empty record.
InsertUnchecked(db, tableName, columnNames, columnValues) ==
  InsertExecute(db, InsertStatement(tableName, columnNames, columnValues))

\* After the loop: the exception of an empty record is caught by the
\* function's own handler.
InsertChecked(db, tableName, columnNames, columnValues) ==
  IF columnNames = <<>> \/ columnValues = <<>>
  THEN Outcome("FALSE", "EmptyRecord", FALSE, <<>>, db)
  ELSE InsertExecute(db, InsertStatement(tableName, columnNames, columnValues))

InsertKeys(db, tableName, data, keys) ==
  InsertChecked(db, tableName, TrimBoth(ColumnNames(keys)),
                TrimBoth(ColumnValues(data, keys)))

\* insert_into_content_type(table_name, data)
InsertIntoContentType(db, tableName, data) ==
  InsertKeys(db, tableName, data, JsonbEach(data))

\* A return that takes the statement having run for a row having matched.
RowCountReturnRan(stmt, r) ==
  IF ~r.ok THEN Outcome("FALSE", "StoreError", TRUE, stmt, r.db)
  ELSE Outcome("TRUE", "", TRUE, stmt, r.db)

\* RETURN row_count > 0, or WHEN OTHERS THEN RETURN FALSE.
RowCountReturn(stmt, r) ==
  IF ~r.ok THEN Outcome("FALSE", "StoreError", TRUE, stmt, r.db)
  ELSE IF r.count > 0 THEN Outcome("TRUE", "", TRUE, stmt, r.db)
  ELSE Outcome("FALSE", "NoRow", TRUE, stmt, r.db)

RowCountExecute(db, stmt) == RowCountReturn(stmt, StoreExec(db, stmt))

\* An update without the check for an empty list of pairs.
UpdateUnchecked(db, tableName, id, updatePairs) ==
  RowCountExecute(db, UpdateStatement(tableName, updatePairs, id))

\* After the loop: no pairs, no statement.
UpdateChecked(db, tableName, id, updatePairs) ==
  IF updatePairs = <<>> THEN Outcome("FALSE", "NoOpUpdate", FALSE, <<>>, db)
  ELSE RowCountExecute(db, UpdateStatement(tableName, updatePairs, id))

\* update_content_type_data(table_name, id, update_data)
UpdateContentTypeData(db, tableName, id, updateData) ==
  UpdateChecked(db, tableName, id,
                TrimBoth(UpdatePairs(updateData, JsonbEach(updateData))))

\* delete_content_type_data(table_name, record_id)
DeleteContentTypeData(db, tableName, recordId) ==
  RowCountExecute(db, DeleteStatement(tableName, recordId))

\* ----------------------------------------------------------------- inputs
\* What the model's callers send: a table name with a quote and a statement
\* terminator in it and the empty name; the column id and a column with a
\* quote in its name; the column specifications below; a string with a
\* quote in it, numbers, and JSON null.
HostileTable == <<"t", Dq, Semi>>
HostileCol == <<"c", Dq>>
TableNames == {HostileTable, <<>>}
ColNames == {IdCol, HostileCol}
ColumnSpecs ==
  { [type |-> "TEXT", constraints |-> <<>>],
    [type |-> "INTEGER", constraints |-> <<"NOT NULL">>],
    [type |-> "VARCHAR", constraints |-> <<>>],
    [type |-> NullSql, constraints |-> <<>>],
    [type |-> NullSql, constraints |-> <<"VARCHAR">>],
    [type |-> "TEXT", constraints |-> <<"VARCHAR">>] }
Values == {JStr(<<"a", Sq>>), JNull} \cup {JNum(n) : n \in 1..MaxId}
Ids == 1..MaxId

\* The mappings with at most MaxCols entries.
Mappings(V) ==
  UNION {[K -> V] : K \in {X \in SUBSET ColNames : Cardinality(X) <= MaxCols}}
Schemas == Mappings(ColumnSpecs)
Datas == Mappings(Values)
NoMapping == [c \in {} |-> JNull]

\* ------------------------------------------------------------------ state
\* db: the store.  last: the request being answered, with the store as it
\* was before it (pre), or op "none" between requests.
VARIABLES db, last
vars == <<db, last>>

Idle ==
  [op |-> "none", tableName |-> <<>>, schema |-> NoMapping, data |-> NoMapping,
   id |-> 0, result |-> "", error |-> "", issued |-> FALSE, stmt |-> <<>>,
   pre |-> NoTables]

\* The function has returned o: the store is as it left it and the request
\* is being answered.
Handled(op, tableName, schema, data, id, o) ==
  /\ db' = o.db
  /\ last' = [op |-> op, tableName |-> tableName, schema |-> schema, data |-> data,
              id |-> id, result |-> o.result, error |-> o.error,
              issued |-> o.issued, stmt |-> o.stmt, pre |-> db]

Init == db = NoTables /\ last = Idle

\* The insert takes no value of the id sequence, or one up to MaxId.
SequenceLeft(tableName, data) ==
  IF IdCol \in DOMAIN data THEN TRUE
  ELSE IF tableName \notin DOMAIN db THEN TRUE
  ELSE db[tableName].seq <= MaxId

\* POST /create
CreateTable(tableName, schema) ==
  /\ last.op = "none"
  /\ Handled("create", tableName, schema, NoMapping, 0,
             CreateContentType(db, tableName, schema))

\* POST /insert
InsertData(tableName, data) ==
  /\ last.op = "none"
  /\ SequenceLeft(tableName, data)
  /\ Handled("insert", tableName, NoMapping, data, 0,
             InsertIntoContentType(db, tableName, data))

\* PUT /update
UpdateData(tableName, id, updateData) ==
  /\ last.op = "none"
  /\ Handled("update", tableName, NoMapping, updateData, id,
             UpdateContentTypeData(db, tableName, id, updateData))

\* DELETE /delete
DeleteData(tableName, id) ==
  /\ last.op = "none"
  /\ Handled("delete", tableName, NoMapping, NoMapping, id,
             DeleteContentTypeData(db, tableName, id))

\* The response is sent; the next request may come.
Respond ==
  /\ last.op # "none"
  /\ last' = Idle
  /\ UNCHANGED db

Next ==
  \/ \E t \in TableNames, s \in Schemas : CreateTable(t, s)
  \/ \E t \in TableNames, d \in Datas : InsertData(t, d)
  \/ \E t \in TableNames, i \in Ids, d \in Datas : UpdateData(t, i, d)
  \/ \E t \in TableNames, i \in Ids : DeleteData(t, i)
  \/ Respond

Spec == Init /\ [][Next]_vars

\* ------------------------------------------------- what the claims speak of
T == last.tableName
Existed == T \in DOMAIN last.pre
Exists == T \in DOMAIN db
\* The records of the request's table before and after it.
RowsBefore == last.pre[T].rows
RowsAfter == db[T].rows
Matched == Existed /\ last.id \in DOMAIN last.pre[T].rows
\* The ids of the records the request added.
NewIds == DOMAIN RowsAfter \ DOMAIN RowsBefore

\* The cell a caller expects a column to hold after sending it value v: the
\* string's own characters, the number, the boolean, or NULL.
Stored(v) ==
  CASE v.k = "str" -> Cell(v.s)
    [] v.k = "num" -> Cell(NatText(v.n))
    [] v.k = "bool" -> Cell(IF v.n = 1 THEN TrueText ELSE FalseText)
    [] OTHER -> NullCell

AllAllowed(schema) == \A k \in DOMAIN schema : schema[k].type \in AllowedTypes
\* The constraints text is made of column constraints.
ValidConstraints(schema) ==
  \A k \in DOMAIN schema :
    \A i \in 1..Len(schema[k].constraints) : schema[k].constraints[i] \in ConstraintWords

\* ------------------------------------------------------------------ C1
\* A create request whose schema has at least one entry, all of allow-listed
\* types.
ValidCreate ==
  last.op = "create" /\ DOMAIN last.schema # {} /\ AllAllowed(last.schema)

C2_RoundTrip ==
  (last.op = "insert" /\ last.result = "TRUE") =>
    \E id \in NewIds :
      \A c \in DOMAIN last.data \ {IdCol} :
        last.data[c].k \in {"str", "num"} => RowsAfter[id][c] = Stored(last.data[c])

\* ------------------------------------------------------------------ C3
\* C3 as stated, for an update that names existing columns other than id:
\* on an identifier that matches a record it returns true and the record
\* holds the new value in every column the update named.
C3_UpdateHoldsNewValues ==
  (/\ last.op = "update" /\ Matched
   /\ DOMAIN last.data # {}
   /\ DOMAIN last.data \subseteq UserCols(last.pre[T])) =>
    /\ last.result = "TRUE"
    /\ \A c \in DOMAIN last.data : RowsAfter[last.id][c] = Stored(last.data[c])

\* ------------------------------------------------------------------ C4
\* C4: an update or delete whose identifier matches no record (of a table
\* that exists, or because the table does not exist) returns false and leaves
\* the store as it was; so the result is true only if a row was affected.
C4_NoMatchNoChange ==
  (last.op \in {"update", "delete"} /\ ~Matched) =>
    last.result = "FALSE" /\ db = last.pre

\* C4's case: an update that names a column, sent to a table that holds a
\* record, with an identifier no record has; the statement reached the store
\* and affected no row.
C4_Witness ==
  /\ last.op = "update" /\ Existed /\ ~Matched
  /\ DOMAIN RowsBefore # {}
  /\ last.issued /\ last.error = "NoRow"

\* ------------------------------------------------------------------ C5
\* C5: an update with an empty updateData returns false, issues no statement
\* and changes nothing, whatever the table name and the identifier.
C5_EmptyUpdate ==
  (last.op = "update" /\ DOMAIN last.data = {}) =>
    last.result = "FALSE" /\ ~last.issued /\ db = last.pre

\* C5's case: the empty update is sent for a record that exists.
C5_Witness ==
  last.op = "update" /\ DOMAIN last.data = {} /\ Matched /\ last.result = "FALSE"

C7_TypesChecked ==
  (last.op = "create" /\ ~AllAllowed(last.schema)) =>
    last.result = "RAISED" /\ db = last.pre

\* ------------------------------------------------------------------ C8
\* C8: create-collection with an empty schema fails (EmptySchema) and insert
\* with an empty record fails (EmptyRecord), both before any statement
\* reaches the store: nothing changes, whether or not the table exists.
C8_EmptyMappings ==
  /\ (last.op = "create" /\ DOMAIN last.schema = {}) =>
       /\ last.result = "RAISED" /\ last.error = "EmptySchema"
       /\ ~last.issued /\ db = last.pre
  /\ (last.op = "insert" /\ DOMAIN last.data = {}) =>
       /\ last.result = "FALSE" /\ last.error = "EmptyRecord"
       /\ ~last.issued /\ db = last.pre

\* C8's case: the empty record is sent to a table that exists.
C8_Witness ==
  last.op = "insert" /\ DOMAIN last.data = {} /\ Existed /\ last.result = "FALSE"

\* ------------------------------------------------------------------ C9
\* The statement p, as the store parsed it, is the request's: its kind, its
\* one table, and its columns in the order of the mapping's keys.
SameShape(p) ==
  /\ p.kind = last.op
  /\ p.table = T
  /\ p.cols = JsonbEach(IF last.op = "create" THEN last.schema ELSE last.data)
  /\ last.op \in {"update", "delete"} => p.id = last.id

\* The store cannot parse the statement only for the empty table name, or,
\* in a create, for a column without a type or with a constraints text that
\* is no column constraint.
Unparsed ==
  \/ T = <<>>
  \/ last.op = "create" /\ ~(AllAllowed(last.schema) /\ ValidConstraints(last.schema))

Shaped(p) == IF p.ok THEN SameShape(p) ELSE Unparsed

\* C9: whatever quote or statement terminator a table or column name holds,
\* the statement that reaches the store names exactly the caller's table
\* and columns.
C9_NamesKeepShape == last.issued => Shaped(Parse(last.stmt))

\* C9's case: an update of the table named t"; that sets the column named c"
\* and id was parsed and ran.
C9_Witness ==
  /\ last.op = "update" /\ last.issued /\ last.result = "TRUE"
  /\ T = HostileTable
  /\ DOMAIN last.data = {HostileCol, IdCol}

\* ----------------------------------------------------------------- C10
\* C10 as stated: after an insert or update that succeeded, a column that
\* was sent JSON null is NULL.
C10_NullStored ==
  /\ (last.op = "insert" /\ last.result = "TRUE") =>
       \E id \in NewIds :
         \A c \in DOMAIN last.data \ {IdCol} :
           last.data[c] = JNull => RowsAfter[id][c].null
  /\ (last.op = "update" /\ last.result = "TRUE" /\ IdCol \notin DOMAIN last.data) =>
       \A c \in DOMAIN last.data :
         last.data[c] = JNull => RowsAfter[last.id][c].null

\* ----------------------------------------------------------------- C11
\* The records the request's table had are all there still, as they were.
RowsKept == \A i \in DOMAIN RowsBefore : i \in DOMAIN RowsAfter /\ RowsAfter[i] = RowsBefore[i]

\* The records other than the request's are there still, as they were, and
\* the table has as many records as before.
OthersKept ==
  /\ \A i \in DOMAIN RowsBefore \ {last.id} :
       i \in DOMAIN RowsAfter /\ RowsAfter[i] = RowsBefore[i]
  /\ Cardinality(DOMAIN RowsAfter) = Cardinality(DOMAIN RowsBefore)

=============================================================================
